---- MODULE Spec2Model ----
(***************************************************************************)
(* State-machine model of the NFTDisplay React component                    *)
(* (src/src/components/NFTDisplay/NFTDisplay.tsx).                          *)
(*                                                                         *)
(* The component has three parts that share the asset list `nfts`:         *)
(*   - loadData: the asynchronous load cycle (ownership, usage ledger,     *)
(*     user profile, aggregate points), one invocation per trigger;        *)
(*   - the carousel: currentSlide / itemsPerView / isPaused and the        *)
(*     auto-rotation interval;                                             *)
(*   - the lazy-loading IntersectionObserver and the loadedImages set.     *)
(*                                                                         *)
(* Numbers with a fractional part (the multiplier) are kept in tenths.     *)
(***************************************************************************)
EXTENDS Integers, Sequences, FiniteSets, TLC

(* ------------------------------ bounds --------------------------------- *)
\* longest asset list an ownership fetch returns
MaxAssets == 5
\* number of load cycles (triggers) in one behaviour
MaxCycles == 2
\* largest current_streak a profile carries
MaxStreak == 30
\* navigation timeouts (setTimeout(setupImageObserver, 100)) pending at once
MaxPending == 1
\* token ids and list lengths explored by the tagging function on its own
MaxTagTokens == 2

VARIABLES
  nfts, loading, syncingNFTs, error, points, streak, multiplier, totalPoints,
  currentSlide, isPaused, itemsPerView,
  timerActive, liveIntervals, loadedImages, observerLive, observed,
  effectTimer, navTimers, mounted, lastEvent,
  started, pc, userNfts, writer, snap,
  tagIn, tagOut, profileIn, probeDone

vars == << nfts, loading, syncingNFTs, error, points, streak, multiplier,
           totalPoints, currentSlide, isPaused, itemsPerView, timerActive,
           liveIntervals, loadedImages, observerLive, observed, effectTimer, navTimers,
           mounted, lastEvent, started, pc, userNfts, writer, snap,
           tagIn, tagOut, profileIn, probeDone >>

loadVars == << loading, syncingNFTs, error, points, streak, multiplier,
               totalPoints >>
cycleVars == << started, pc, userNfts, writer, snap >>
slideVars == << currentSlide, isPaused, itemsPerView >>
observerVars == << loadedImages, observerLive, observed, effectTimer,
                   navTimers >>
probeVars == << tagIn, tagOut, profileIn, probeDone >>
\* whether autoRotateTimerRef's interval is running, and how many intervals
\* started by the component are running
timerVars == << timerActive, liveIntervals >>

(* ------------------------------ helpers -------------------------------- *)
Max(a, b) == IF a >= b THEN a ELSE b

\* Math.ceil(a / b) for a >= 0, b > 0
Ceil(a, b) == (a + b - 1) \div b

(* --------------------------- string values ----------------------------- *)
\* Strings that are compared case-insensitively are sequences of characters.
Digits == << "0", "1", "2", "3", "4", "5", "6", "7", "8", "9" >>

RECURSIVE NumStr(_)
NumStr(n) ==
  IF n < 10 THEN << Digits[n + 1] >>
  ELSE NumStr(n \div 10) \o << Digits[(n % 10) + 1] >>

LowerChar(ch) ==
  CASE ch = "A" -> "a"
    [] ch = "B" -> "b"
    [] ch = "C" -> "c"
    [] OTHER -> ch

toLowerCase(s) == [i \in DOMAIN s |-> LowerChar(s[i])]

\* the collection's contract address as the service module exports it
PRIMOS_NFT_CONTRACT == << "A", "b" >>

(* --------------------------- data domains ------------------------------ *)
Indices(list) == 0 .. (Len(list) - 1)

\* the list fetchUserNFTs returns for a wallet holding n tokens
OwnedList(n) == [i \in 1 .. n |-> [tokenId |-> i]]
OwnedLists == { OwnedList(n) : n \in 0 .. MaxAssets }

\* the ownership results the load cycles are run on
OwnedSamples == { OwnedList(0), OwnedList(2) }

LowerContract == toLowerCase(PRIMOS_NFT_CONTRACT)

\* today's nft_usage_tracking rows as the load cycle of the component sees them
LedgerSamples ==
  { {}, { [token_id |-> 1, contract_address |-> LowerContract] } }

\* window.innerWidth at a resize, on both sides of every breakpoint
Widths == { 639, 640, 767, 768, 1023, 1024 }

(* -------------------- usage tagging (lines 74-88) ---------------------- *)
\* `${nft.token_id}-${nft.contract_address}`
UsedKey(rec) == NumStr(rec.token_id) \o << "-" >> \o rec.contract_address

usedNftSet(usedNfts) == { UsedKey(rec) : rec \in usedNfts }

\* `${nft.tokenId}-${PRIMOS_NFT_CONTRACT.toLowerCase()}`
AssetKey(nft) == NumStr(nft.tokenId) \o << "-" >> \o LowerContract

nftsWithUsageStatus(owned, usedNfts) ==
  [i \in DOMAIN owned |->
     [tokenId |-> owned[i].tokenId,
      isUsedToday |-> AssetKey(owned[i]) \in usedNftSet(usedNfts)]]

(* ---------------------- carousel arithmetic ---------------------------- *)
\* ItemsForWidth with strict comparisons (> for >=)
ItemsForWidthStrict(width) ==
  IF width > 1024 THEN 4
  ELSE IF width > 768 THEN 3
  ELSE IF width > 640 THEN 2
  ELSE 1

\* handleResize: the breakpoints
ItemsForWidth(width) ==
  IF width >= 1024 THEN 4
  ELSE IF width >= 768 THEN 3
  ELSE IF width >= 640 THEN 2
  ELSE 1

\* TickSlide wrapping one slide early (>= for >)
TickSlideEarlyWrap(prev, len, perView) ==
  LET nextSlide == prev + 1
      maxSlide == len - perView
  IN IF nextSlide >= maxSlide THEN 0 ELSE nextSlide

\* TickSlide that stays on the last position instead of looping back
TickSlideNoLoop(prev, len, perView) ==
  LET nextSlide == prev + 1
      maxSlide == len - perView
  IN IF nextSlide > maxSlide THEN prev ELSE nextSlide

\* the updater of the setInterval callback
TickSlide(prev, len, perView) ==
  LET nextSlide == prev + 1
      maxSlide == len - perView
  IN IF nextSlide > maxSlide THEN 0 ELSE nextSlide

\* the updater of goToPrevSlide
PrevSlide(prev, len, perView) ==
  IF prev = 0 THEN Max(0, len - perView) ELSE Max(0, prev - 1)

\* NextSlide wrapping one slide late (> for >=)
NextSlideLateWrap(prev, len, perView) ==
  LET maxSlide == Max(0, len - perView)
  IN IF prev > maxSlide THEN 0 ELSE prev + 1

\* the updater of goToNextSlide
NextSlide(prev, len, perView) ==
  LET maxSlide == Max(0, len - perView)
  IN IF prev >= maxSlide THEN 0 ELSE prev + 1

\* the progress-indicator buttons rendered for a list
Pages(len, perView) == 0 .. (Ceil(len, perView) - 1)

\* the progress-indicator onClick
JumpSlide(index, perView) == index * perView

\* the carousel region is rendered unless the list is empty and nothing loads
CarouselRendered == mounted /\ (Len(nfts) # 0 \/ loading)

\* the image containers that registered a ref (every asset carries an image)
imageRefs == IF CarouselRendered THEN Indices(nfts) ELSE {}

\* the handler that ran last and the slide it started from (a resize also
\* records window.innerWidth)
Event(name) == lastEvent' = [name |-> name, from |-> currentSlide]

(* ------------------ effects that follow a state change ----------------- *)
\* clearInterval(autoRotateTimerRef.current): one interval fewer when the
\* referenced one was still running
AfterClear == IF timerActive THEN liveIntervals - 1 ELSE liveIntervals

\* AutoRotationEffect that never clears the interval of the previous run
AutoRotationEffectNoCleanup(len) ==
  /\ timerActive' = (len > 0)
  /\ liveIntervals' = IF len > 0 THEN liveIntervals + 1 ELSE liveIntervals

\* useEffect([nfts.length, isPaused, itemsPerView]) runs again: the cleanup
\* clears the interval, the body (startAutoRotation) clears the referenced
\* one once more and starts a new one when the list is not empty
AutoRotationEffect(len) ==
  /\ timerActive' = (len > 0)
  /\ liveIntervals' = IF len > 0 THEN AfterClear + 1 ELSE AfterClear

\* setNfts(list) and the effects its render runs: the auto-rotation effect
\* and useEffect([nfts, setupImageObserver]) (cleanup of the previous run,
\* then reset of loadedImages and a fresh 100 ms timer)
SetNfts(list) ==
  /\ nfts' = list
  /\ AutoRotationEffect(Len(list))
  /\ loadedImages' = {}
  /\ observerLive' = FALSE
  /\ observed' = {}
  /\ effectTimer' = TRUE
  /\ UNCHANGED << navTimers, slideVars >>

(* --------------------------- carousel events --------------------------- *)
\* window 'resize'
handleResize ==
  /\ mounted
  /\ \E width \in Widths :
       /\ lastEvent' = [name |-> "resize", from |-> currentSlide,
                        width |-> width]
       /\ itemsPerView' = ItemsForWidth(width)
  /\ UNCHANGED << currentSlide, isPaused >>
  /\ AutoRotationEffect(Len(nfts))
  /\ UNCHANGED << nfts, observerVars, mounted >>
  /\ UNCHANGED << loadVars, cycleVars, probeVars >>

\* the setInterval callback of startAutoRotation
AutoTick ==
  /\ Event("tick")
  /\ mounted
  /\ timerActive
  /\ IF ~isPaused /\ Len(nfts) > itemsPerView
       THEN currentSlide' = TickSlide(currentSlide, Len(nfts), itemsPerView)
       ELSE currentSlide' = currentSlide
  /\ UNCHANGED << isPaused, itemsPerView >>
  /\ UNCHANGED << nfts, timerVars, observerVars, mounted >>
  /\ UNCHANGED << loadVars, cycleVars, probeVars >>

goToPrevSlide ==
  /\ Event("prev")
  /\ CarouselRendered
  /\ navTimers < MaxPending
  /\ currentSlide' = PrevSlide(currentSlide, Len(nfts), itemsPerView)
  /\ navTimers' = navTimers + 1
  /\ UNCHANGED << isPaused, itemsPerView >>
  /\ UNCHANGED << loadedImages, observerLive, observed, effectTimer >>
  /\ UNCHANGED << nfts, timerVars, mounted >>
  /\ UNCHANGED << loadVars, cycleVars, probeVars >>

\* goToNextSlide that also pauses the rotation
goToNextSlidePauses ==
  /\ Event("next")
  /\ CarouselRendered
  /\ navTimers < MaxPending
  /\ currentSlide' = NextSlide(currentSlide, Len(nfts), itemsPerView)
  /\ navTimers' = navTimers + 1
  /\ isPaused' = TRUE
  /\ UNCHANGED itemsPerView
  /\ UNCHANGED << loadedImages, observerLive, observed, effectTimer >>
  /\ UNCHANGED << nfts, timerVars, mounted >>
  /\ UNCHANGED << loadVars, cycleVars, probeVars >>

goToNextSlide ==
  /\ Event("next")
  /\ CarouselRendered
  /\ navTimers < MaxPending
  /\ currentSlide' = NextSlide(currentSlide, Len(nfts), itemsPerView)
  /\ navTimers' = navTimers + 1
  /\ UNCHANGED << isPaused, itemsPerView >>
  /\ UNCHANGED << loadedImages, observerLive, observed, effectTimer >>
  /\ UNCHANGED << nfts, timerVars, mounted >>
  /\ UNCHANGED << loadVars, cycleVars, probeVars >>

\* a click on progress-indicator button `index`
jumpToPage ==
  /\ Event("jump")
  /\ CarouselRendered
  /\ \E index \in Pages(Len(nfts), itemsPerView) :
       currentSlide' = JumpSlide(index, itemsPerView)
  /\ UNCHANGED << isPaused, itemsPerView >>
  /\ UNCHANGED << nfts, timerVars, observerVars, mounted >>
  /\ UNCHANGED << loadVars, cycleVars, probeVars >>

onMouseEnter ==
  /\ Event("enter")
  /\ CarouselRendered
  /\ isPaused' = TRUE
  /\ UNCHANGED << currentSlide, itemsPerView >>
  /\ AutoRotationEffect(Len(nfts))
  /\ UNCHANGED << nfts, observerVars, mounted >>
  /\ UNCHANGED << loadVars, cycleVars, probeVars >>

onMouseLeave ==
  /\ Event("leave")
  /\ CarouselRendered
  /\ isPaused' = FALSE
  /\ UNCHANGED << currentSlide, itemsPerView >>
  /\ AutoRotationEffect(Len(nfts))
  /\ UNCHANGED << nfts, observerVars, mounted >>
  /\ UNCHANGED << loadVars, cycleVars, probeVars >>

(* ------------------------- lazy-loading observer ----------------------- *)
\* setupImageObserver: disconnect the previous observer, create a new one
\* and observe every registered image container
setupImageObserver ==
  /\ observerLive' = TRUE
  /\ observed' = imageRefs

\* the 100 ms timer of useEffect([nfts, setupImageObserver]) fires
EffectTimerFires ==
  /\ Event("setup")
  /\ effectTimer
  /\ effectTimer' = FALSE
  /\ setupImageObserver
  /\ UNCHANGED << loadedImages, navTimers >>
  /\ UNCHANGED << nfts, timerVars, slideVars, mounted >>
  /\ UNCHANGED << loadVars, cycleVars, probeVars >>

\* a setTimeout(setupImageObserver, 100) of goToPrevSlide / goToNextSlide fires
NavTimerFires ==
  /\ Event("setup")
  /\ navTimers > 0
  /\ navTimers' = navTimers - 1
  /\ setupImageObserver
  /\ UNCHANGED << loadedImages, effectTimer >>
  /\ UNCHANGED << nfts, timerVars, slideVars, mounted >>
  /\ UNCHANGED << loadVars, cycleVars, probeVars >>

\* Intersect whose updater starts from an empty set instead of a copy of
\* the previous one
IntersectForgets ==
  /\ Event("intersect")
  /\ observerLive
  /\ \E nftIndex \in observed :
       /\ loadedImages' = IF mounted THEN { nftIndex } ELSE loadedImages
       /\ observed' = observed \ { nftIndex }
  /\ UNCHANGED << observerLive, effectTimer, navTimers >>
  /\ UNCHANGED << nfts, timerVars, slideVars, mounted >>
  /\ UNCHANGED << loadVars, cycleVars, probeVars >>

\* the IntersectionObserver callback for one intersecting entry
Intersect ==
  /\ Event("intersect")
  /\ observerLive
  /\ \E nftIndex \in observed :
       /\ loadedImages' = IF mounted THEN loadedImages \cup { nftIndex }
                                     ELSE loadedImages
       /\ observed' = observed \ { nftIndex }
  /\ UNCHANGED << observerLive, effectTimer, navTimers >>
  /\ UNCHANGED << nfts, timerVars, slideVars, mounted >>
  /\ UNCHANGED << loadVars, cycleVars, probeVars >>

\* the component is removed: every effect's cleanup runs
Unmount ==
  /\ Event("unmount")
  /\ mounted
  /\ mounted' = FALSE
  /\ timerActive' = FALSE
  /\ liveIntervals' = AfterClear
  /\ effectTimer' = FALSE
  /\ observerLive' = FALSE
  /\ observed' = {}
  /\ UNCHANGED << loadedImages, navTimers >>
  /\ UNCHANGED << nfts, slideVars >>
  /\ UNCHANGED << loadVars, cycleVars, probeVars >>

\* a load cycle reaches setNfts (line 90) with its tagged list; the usage
\* flags play no part in the carousel, so the ledger is the empty one
ReplaceAssets ==
  /\ Event("replace")
  /\ mounted
  /\ \E owned \in OwnedLists :
       SetNfts(nftsWithUsageStatus(owned, {}))
  /\ UNCHANGED mounted
  /\ UNCHANGED << loadVars, cycleVars, probeVars >>

(* ------------------------- load cycle: values -------------------------- *)
Cycles == 1 .. MaxCycles

\* the state variables a load cycle writes
LoadNames == { "nfts", "loading", "syncingNFTs", "error", "points", "streak",
               "multiplier", "totalPoints" }

\* setError(null)
NoError == "null"

Messages == { "", "boom" }

\* what a rejected await hands to the catch clause: an Error or anything else
Thrown == [isError : BOOLEAN, message : Messages]

\* `new Error(m)`
NewError(m) == [isError |-> TRUE, message |-> m]

\* the error field of a failed fetchUserNFTs result: an object carrying a
\* message, or nothing usable
NftsErrors == { [hasMessage |-> TRUE, message |-> m] : m \in Messages }
                \cup { [hasMessage |-> FALSE, message |-> ""] }

\* the error field of /api/user-data
ProfileErrorText == "profile unavailable"

\* userDataResult.data when present
ProfileSamples == { [current_streak |-> 8, total_points |-> 4] }

\* totalPoints of calculateNFTPoints
PointSamples == { 3 }

\* ErrorMessageOf without the fallback for an empty message
ErrorMessageOfNoFallback(err) ==
  IF err.isError THEN err.message
  ELSE "An unknown error occurred while loading NFT data. Check console for details."

\* the catch clause (lines 126-134)
ErrorMessageOf(err) ==
  IF err.isError
    THEN (IF err.message # "" THEN err.message
          ELSE "An error occurred while loading NFT data")
    ELSE "An unknown error occurred while loading NFT data. Check console for details."

\* lines 53-59: the Error thrown when fetchUserNFTs reports failure
OwnershipFailure(nftsError) ==
  IF nftsError.hasMessage THEN NewError(nftsError.message)
  ELSE NewError("Failed to fetch NFTs")

\* MultiplierFor with strict comparisons (> for >=)
MultiplierForStrict(current_streak) ==
  IF current_streak > 29 THEN 30
  ELSE IF current_streak > 22 THEN 25
  ELSE IF current_streak > 15 THEN 20
  ELSE IF current_streak > 8 THEN 15
  ELSE 10

\* lines 107-112, in tenths
MultiplierFor(current_streak) ==
  IF current_streak >= 29 THEN 30
  ELSE IF current_streak >= 22 THEN 25
  ELSE IF current_streak >= 15 THEN 20
  ELSE IF current_streak >= 8 THEN 15
  ELSE 10

\* lines 103-114: the profile is present
ApplyUserData(userData) ==
  /\ streak' = userData.current_streak
  /\ totalPoints' = userData.total_points
  /\ multiplier' = MultiplierFor(userData.current_streak)

\* ApplyNoUserData that leaves the streak as it was
ApplyNoUserDataKeepsStreak ==
  /\ streak' = streak
  /\ totalPoints' = 0
  /\ multiplier' = 10

\* lines 115-120: no profile
ApplyNoUserData ==
  /\ streak' = 0
  /\ totalPoints' = 0
  /\ multiplier' = 10

\* `names` were last written by cycle c
Wrote(names, c) ==
  writer' = [v \in LoadNames |-> IF v \in names THEN c ELSE writer[v]]

\* the reward values a cycle starts from, and who wrote them
RewardNames == { "points", "streak", "multiplier", "totalPoints" }

Snapshot ==
  [points |-> points, streak |-> streak, multiplier |-> multiplier,
   totalPoints |-> totalPoints,
   writer |-> [v \in RewardNames |-> writer[v]]]

NoSnapshot ==
  [points |-> 0, streak |-> 0, multiplier |-> 10, totalPoints |-> 0,
   writer |-> [v \in RewardNames |-> 0]]

\* loadData returns: the locals of cycle c are gone
Returns(c) ==
  /\ pc' = [pc EXCEPT ![c] = "done"]
  /\ userNfts' = [userNfts EXCEPT ![c] = << >>]
  /\ snap' = [snap EXCEPT ![c] = NoSnapshot]

\* catch + finally of cycle c; `also` are the names the step wrote before
Fails(c, err, also) ==
  /\ error' = ErrorMessageOf(err)
  /\ loading' = FALSE
  /\ Returns(c)
  /\ Wrote({ "error", "loading" } \cup also, c)
  /\ UNCHANGED started

carouselVars == << slideVars, timerVars, observerVars, lastEvent >>

(* ------------------------- load cycle: steps --------------------------- *)
\* LoadTrigger without setError(null): the previous message stays
LoadTriggerKeepsError ==
  /\ mounted
  /\ started < MaxCycles
  /\ LET c == started + 1 IN
       /\ started' = c
       /\ loading' = TRUE
       /\ error' = error
       /\ syncingNFTs' = TRUE
       /\ pc' = [pc EXCEPT ![c] = "own"]
       /\ snap' = [snap EXCEPT ![c] = Snapshot]
       /\ Wrote({ "loading", "syncingNFTs" }, c)
  /\ UNCHANGED << points, streak, multiplier, totalPoints, userNfts >>
  /\ UNCHANGED << nfts, carouselVars, mounted, probeVars >>

\* provider, userAddress or refreshTrigger changes: loadData() runs up to
\* its first await
LoadTrigger ==
  /\ mounted
  /\ started < MaxCycles
  /\ LET c == started + 1 IN
       /\ started' = c
       /\ loading' = TRUE
       /\ error' = NoError
       /\ syncingNFTs' = TRUE
       /\ pc' = [pc EXCEPT ![c] = "own"]
       /\ snap' = [snap EXCEPT ![c] = Snapshot]
       /\ Wrote({ "loading", "error", "syncingNFTs" }, c)
  /\ UNCHANGED << points, streak, multiplier, totalPoints, userNfts >>
  /\ UNCHANGED << nfts, carouselVars, mounted, probeVars >>

\* await fetchUserNFTs(...) rejects
OwnershipThrowsIn(c) ==
  /\ \E err \in Thrown :
       /\ pc[c] = "own"
       /\ Fails(c, err, {})
  /\ UNCHANGED << syncingNFTs, points, streak, multiplier, totalPoints >>
  /\ UNCHANGED << nfts, carouselVars, mounted, probeVars >>

OwnershipThrows == \E c \in Cycles : OwnershipThrowsIn(c)

\* OwnershipFailsIn that records the failure but does not leave loadData:
\* the cycle goes on to the ledger read with no ownership result
OwnershipFailsContinuesIn(c) ==
  /\ \E nftsError \in NftsErrors :
       /\ pc[c] = "own"
       /\ syncingNFTs' = FALSE
       /\ error' = ErrorMessageOf(OwnershipFailure(nftsError))
       /\ pc' = [pc EXCEPT ![c] = "ledger"]
       /\ Wrote({ "syncingNFTs", "error" }, c)
  /\ UNCHANGED << loading, points, streak, multiplier, totalPoints >>
  /\ UNCHANGED << started, userNfts, snap >>
  /\ UNCHANGED << nfts, carouselVars, mounted, probeVars >>

\* fetchUserNFTs resolves with success = false, in cycle c
OwnershipFailsIn(c) ==
  /\ \E nftsError \in NftsErrors :
       /\ pc[c] = "own"
       /\ syncingNFTs' = FALSE
       /\ Fails(c, OwnershipFailure(nftsError), { "syncingNFTs" })
  /\ UNCHANGED << points, streak, multiplier, totalPoints >>
  /\ UNCHANGED << nfts, carouselVars, mounted, probeVars >>

OwnershipFails == \E c \in Cycles : OwnershipFailsIn(c)

\* fetchUserNFTs resolves with success = true
OwnershipSucceedsIn(c) ==
  /\ \E owned \in OwnedSamples :
       /\ pc[c] = "own"
       /\ syncingNFTs' = FALSE
       /\ userNfts' = [userNfts EXCEPT ![c] = owned]
       /\ pc' = [pc EXCEPT ![c] = "ledger"]
       /\ Wrote({ "syncingNFTs" }, c)
  /\ UNCHANGED << loading, error, points, streak, multiplier, totalPoints >>
  /\ UNCHANGED << started, snap >>
  /\ UNCHANGED << nfts, carouselVars, mounted, probeVars >>

OwnershipSucceeds == \E c \in Cycles : OwnershipSucceedsIn(c)

\* the nft_usage_tracking read returns an error, which is thrown as it is,
\* in cycle c
LedgerFailsIn(c) ==
  /\ \E usedError \in Thrown :
       /\ pc[c] = "ledger"
       /\ Fails(c, usedError, {})
  /\ UNCHANGED << syncingNFTs, points, streak, multiplier, totalPoints >>
  /\ UNCHANGED << nfts, carouselVars, mounted, probeVars >>

LedgerFails == \E c \in Cycles : LedgerFailsIn(c)

\* the nft_usage_tracking read returns rows: tag and setNfts
LedgerSucceedsIn(c) ==
  /\ \E usedNfts \in LedgerSamples :
       /\ pc[c] = "ledger"
       /\ SetNfts(nftsWithUsageStatus(userNfts[c], usedNfts))
       /\ pc' = [pc EXCEPT ![c] = "profile"]
       /\ Wrote({ "nfts" }, c)
  /\ UNCHANGED << loadVars, started, userNfts, snap >>
  /\ UNCHANGED << mounted, lastEvent, probeVars >>

LedgerSucceeds == \E c \in Cycles : LedgerSucceedsIn(c)

\* fetch('/api/user-data') or response.json() rejects
ProfileThrowsIn(c) ==
  /\ \E err \in Thrown :
       /\ pc[c] = "profile"
       /\ Fails(c, err, {})
  /\ UNCHANGED << syncingNFTs, points, streak, multiplier, totalPoints >>
  /\ UNCHANGED << nfts, carouselVars, mounted, probeVars >>

ProfileThrows == \E c \in Cycles : ProfileThrowsIn(c)

\* ProfileErrorsIn that stores the no-profile defaults before it throws
ProfileErrorsDefaultsIn(c) ==
  /\ pc[c] = "profile"
  /\ ApplyNoUserData
  /\ error' = ErrorMessageOf(NewError(ProfileErrorText))
  /\ loading' = FALSE
  /\ Returns(c)
  /\ Wrote({ "error", "loading", "streak", "totalPoints", "multiplier" }, c)
  /\ UNCHANGED << started, syncingNFTs, points >>
  /\ UNCHANGED << nfts, carouselVars, mounted, probeVars >>

\* the profile endpoint answers with an error field
ProfileErrorsIn(c) ==
  /\ pc[c] = "profile"
  /\ Fails(c, NewError(ProfileErrorText), {})
  /\ UNCHANGED << syncingNFTs, points, streak, multiplier, totalPoints >>
  /\ UNCHANGED << nfts, carouselVars, mounted, probeVars >>

ProfileErrors == \E c \in Cycles : ProfileErrorsIn(c)

\* the profile endpoint answers with data
ProfilePresentIn(c) ==
  /\ \E userData \in ProfileSamples :
       /\ pc[c] = "profile"
       /\ ApplyUserData(userData)
       /\ pc' = [pc EXCEPT ![c] = "points"]
       /\ Wrote({ "streak", "totalPoints", "multiplier" }, c)
  /\ UNCHANGED << loading, syncingNFTs, error, points >>
  /\ UNCHANGED << started, userNfts, snap >>
  /\ UNCHANGED << nfts, carouselVars, mounted, probeVars >>

ProfilePresent == \E c \in Cycles : ProfilePresentIn(c)

\* the profile endpoint answers with data = null
ProfileAbsentIn(c) ==
  /\ pc[c] = "profile"
  /\ ApplyNoUserData
  /\ pc' = [pc EXCEPT ![c] = "points"]
  /\ Wrote({ "streak", "totalPoints", "multiplier" }, c)
  /\ UNCHANGED << loading, syncingNFTs, error, points >>
  /\ UNCHANGED << started, userNfts, snap >>
  /\ UNCHANGED << nfts, carouselVars, mounted, probeVars >>

ProfileAbsent == \E c \in Cycles : ProfileAbsentIn(c)

\* calculateNFTPoints rejects
PointsThrowsIn(c) ==
  /\ \E err \in Thrown :
       /\ pc[c] = "points"
       /\ Fails(c, err, {})
  /\ UNCHANGED << syncingNFTs, points, streak, multiplier, totalPoints >>
  /\ UNCHANGED << nfts, carouselVars, mounted, probeVars >>

PointsThrows == \E c \in Cycles : PointsThrowsIn(c)

\* calculateNFTPoints resolves: setPoints, then finally
PointsSucceedsIn(c) ==
  /\ \E nftPoints \in PointSamples :
       /\ pc[c] = "points"
       /\ points' = nftPoints
       /\ loading' = FALSE
       /\ Returns(c)
       /\ Wrote({ "points", "loading" }, c)
  /\ UNCHANGED << syncingNFTs, error, streak, multiplier, totalPoints >>
  /\ UNCHANGED started
  /\ UNCHANGED << nfts, carouselVars, mounted, probeVars >>

PointsSucceeds == \E c \in Cycles : PointsSucceedsIn(c)

(* ------------------ the pure steps, applied on their own ---------------- *)
\* contract_address values a usage row can carry: the collection's address
\* in lower case, the same address as exported, and another collection
TagAddresses == { LowerContract, PRIMOS_NFT_CONTRACT, << "c", "d" >> }

TagTokens == 1 .. MaxTagTokens

TagOwned ==
  UNION { [1 .. n -> [tokenId : TagTokens]] : n \in 0 .. MaxTagTokens }

TagLedgers ==
  SUBSET [token_id : TagTokens, contract_address : TagAddresses]

ProfileInputs == [current_streak : 0 .. MaxStreak, total_points : { 0, 4 }]

\* lines 74-88 on one ownership result and one ledger snapshot
TagStep ==
  /\ ~probeDone
  /\ probeDone' = TRUE
  /\ tagOut' = nftsWithUsageStatus(tagIn.owned, tagIn.usedNfts)
  /\ UNCHANGED << tagIn, profileIn >>
  /\ UNCHANGED << nfts, carouselVars, mounted, loadVars, cycleVars >>

\* lines 103-114 on one profile
RewardStep ==
  /\ ~probeDone
  /\ probeDone' = TRUE
  /\ ApplyUserData(profileIn)
  /\ UNCHANGED << tagIn, tagOut, profileIn >>
  /\ UNCHANGED << loading, syncingNFTs, error, points >>
  /\ UNCHANGED << nfts, carouselVars, mounted, cycleVars >>

(* ------------------------------- Init ---------------------------------- *)
\* the component after its first render and mount effects, wallet not yet
\* connected
InitComponent ==
  /\ nfts = << >>
  /\ loading = FALSE
  /\ syncingNFTs = FALSE
  /\ error = NoError
  /\ points = 0
  /\ streak = 0
  /\ multiplier = 10
  /\ totalPoints = 0
  /\ currentSlide = 0
  /\ isPaused = FALSE
  /\ \E width \in Widths : itemsPerView = ItemsForWidth(width)
  /\ timerActive = FALSE
  /\ liveIntervals = 0
  /\ loadedImages = {}
  /\ observerLive = FALSE
  /\ observed = {}
  /\ effectTimer = TRUE
  /\ navTimers = 0
  /\ mounted = TRUE
  /\ lastEvent = [name |-> "mount", from |-> 0]
  /\ started = 0
  /\ pc = [c \in Cycles |-> "idle"]
  /\ userNfts = [c \in Cycles |-> << >>]
  /\ writer = [v \in LoadNames |-> 0]
  /\ snap = [c \in Cycles |-> NoSnapshot]

NoProbe ==
  /\ tagIn = [owned |-> << >>, usedNfts |-> {}]
  /\ tagOut = << >>
  /\ profileIn = [current_streak |-> 0, total_points |-> 0]
  /\ probeDone = FALSE

Init == InitComponent /\ NoProbe

\* the same on a wide window; no step of loadData reads or writes
\* itemsPerView
InitLoad == Init /\ itemsPerView = ItemsForWidth(1024)

InitTag ==
  /\ InitComponent
  /\ tagIn \in [owned : TagOwned, usedNfts : TagLedgers]
  /\ tagOut = << >>
  /\ profileIn = [current_streak |-> 0, total_points |-> 0]
  /\ probeDone = FALSE

InitReward ==
  /\ InitComponent
  /\ tagIn = [owned |-> << >>, usedNfts |-> {}]
  /\ tagOut = << >>
  /\ profileIn \in ProfileInputs
  /\ probeDone = FALSE

(* --------------------------- specifications ---------------------------- *)
NextLoad ==
  \/ LoadTrigger
  \/ OwnershipThrows
  \/ OwnershipFails
  \/ OwnershipSucceeds
  \/ LedgerFails
  \/ LedgerSucceeds
  \/ ProfileThrows
  \/ ProfileErrors
  \/ ProfilePresent
  \/ ProfileAbsent
  \/ PointsThrows
  \/ PointsSucceeds

NextCarousel ==
  \/ ReplaceAssets
  \/ handleResize
  \/ AutoTick
  \/ goToPrevSlide
  \/ goToNextSlide
  \/ jumpToPage
  \/ onMouseEnter
  \/ onMouseLeave
  \/ EffectTimerFires
  \/ NavTimerFires
  \/ Unmount

NextObserver ==
  \/ ReplaceAssets
  \/ handleResize
  \/ goToPrevSlide
  \/ goToNextSlide
  \/ EffectTimerFires
  \/ NavTimerFires
  \/ Intersect
  \/ Unmount

\* the load cycles of the component, overlapping as triggers arrive
SpecLoad == InitLoad /\ [][NextLoad]_vars

\* the carousel position: every event but the intersection callbacks, which
\* write loadedImages and the observer's targets only
SpecCarousel == Init /\ [][NextCarousel]_vars

\* the carousel with its interval firing again and again: setInterval keeps
\* calling back every 2000 ms for as long as the interval is not cleared
SpecRotation == Init /\ [][NextCarousel]_vars /\ WF_vars(AutoTick)

\* the lazy-loading observer: every event that writes loadedImages, the
\* observer, its timers or the image containers it observes
SpecObserver == Init /\ [][NextObserver]_vars

\* the tagging step on every ownership result and ledger snapshot
SpecTag == InitTag /\ [][TagStep]_vars

\* the multiplier calculation on every profile
SpecReward == InitReward /\ [][RewardStep]_vars

\* the load cycle together with the lazy-loading observer it restarts
NextGeneration ==
  \/ NextLoad
  \/ EffectTimerFires
  \/ Intersect

SpecGeneration == InitLoad /\ [][NextGeneration]_vars

(* ------------------------------ properties ----------------------------- *)
\* maxSlide = max(0, assetCount - itemsPerView)
MaxSlideNow == Max(0, Len(nfts) - itemsPerView)

InRange == currentSlide \in 0 .. MaxSlideNow

\* C1: in every reachable state currentSlide lies in
\* [0, max(0, assetCount - itemsPerView)], whatever resizes, ticks,
\* navigations, page jumps and list replacements came before.
CurrentSlideAlwaysInRange == currentSlide >= 0 /\ currentSlide <= MaxSlideNow

\* C2: once a newer cycle has written a state variable, no older cycle
\* writes it again: the cycle that last wrote each variable never decreases.
NoStaleWrite == [][\A v \in LoadNames : writer'[v] >= writer[v]]_vars

\* C3: after tagging, an owned asset is isUsedToday exactly when the ledger
\* holds a row with its tokenId and its contract address, the addresses
\* compared case-insensitively.
TaggedIffInLedger ==
  probeDone =>
    \A i \in DOMAIN tagOut :
      tagOut[i].isUsedToday <=>
        \E rec \in tagIn.usedNfts :
          /\ rec.token_id = tagIn.owned[i].tokenId
          /\ toLowerCase(rec.contract_address) = toLowerCase(PRIMOS_NFT_CONTRACT)

\* the reward values of the next state equal a snapshot
RewardsAre(s) ==
  /\ points' = s.points
  /\ streak' = s.streak
  /\ multiplier' = s.multiplier
  /\ totalPoints' = s.totalPoints

RewardValue(v) ==
  CASE v = "points" -> points
    [] v = "streak" -> streak
    [] v = "multiplier" -> multiplier
    [] v = "totalPoints" -> totalPoints

\* C4 as stated: when a cycle ends on an ownership failure or a ledger
\* error, points, streak, multiplier and totalPoints hold the values they
\* had when that cycle started, and error is a non-empty message.
FailedCycleRestoresRewards ==
  [][\A c \in Cycles :
       (OwnershipFailsIn(c) \/ LedgerFailsIn(c)) =>
         /\ RewardsAre(snap[c])
         /\ error' \notin { NoError, "" }]_vars

\* C4 as amended: the failing cycle writes none of the four values; each of
\* them that no other cycle wrote since this cycle started holds the value
\* it had then, and error is a non-empty message.
FailedCycleWritesNoReward ==
  [][\A c \in Cycles :
       (OwnershipFailsIn(c) \/ LedgerFailsIn(c)) =>
         /\ UNCHANGED << points, streak, multiplier, totalPoints >>
         /\ \A v \in RewardNames :
              /\ writer'[v] = writer[v]
              /\ writer[v] = snap[c].writer[v] => RewardValue(v) = snap[c][v]
         /\ error' \notin { NoError, "" }]_vars

\* a cycle failed on its ownership fetch after an earlier cycle had set the
\* rewards, which are still in place
FailedAfterRewards ==
  /\ error = "Failed to fetch NFTs"
  /\ writer["error"] = 2
  /\ pc[2] = "done"
  /\ writer["points"] = 1
  /\ points = 3
  /\ streak = 8
  /\ multiplier = 15

\* the table of section 4.2, in tenths
TableMultiplier(s) ==
  CASE s >= 29 -> 30
    [] s >= 22 /\ s <= 28 -> 25
    [] s >= 15 /\ s <= 21 -> 20
    [] s >= 8 /\ s <= 14 -> 15
    [] s >= 0 /\ s <= 7 -> 10

\* C5: for every streak s >= 0 of a present profile the multiplier set is
\* the table's, and so it never decreases as s grows.
MultiplierMatchesTable ==
  probeDone =>
    /\ streak = profileIn.current_streak
    /\ multiplier = TableMultiplier(profileIn.current_streak)
    /\ \A s \in 0 .. profileIn.current_streak :
         MultiplierFor(s) <= multiplier

MultiplierAtTopStep ==
  /\ probeDone
  /\ profileIn.current_streak = 29
  /\ streak = 29
  /\ multiplier = 30

\* C6: a replacement of the asset list leaves loadedImages empty and
\* currentSlide at 0.
NewListResetsCarousel ==
  [][ReplaceAssets => (loadedImages' = {} /\ currentSlide' = 0)]_vars

\* C7: when no load cycle is in flight and at least one has run, loading and
\* syncingNFTs are both false.
FlagsClearedWhenIdle ==
  (started > 0 /\ \A c \in Cycles : pc[c] \in { "idle", "done" })
    => (~loading /\ ~syncingNFTs)

\* C8: within one asset-list generation an index that is in loadedImages is
\* never again a target of the observer, so it is never added a second time.
LoadedNeverObservedAgain == loadedImages \cap observed = {}

\* C9: an auto-tick changes currentSlide only when not paused and
\* assetCount > itemsPerView; then it yields 0 exactly when
\* currentSlide + 1 > assetCount - itemsPerView and currentSlide + 1 otherwise.
AutoTickRule ==
  [][AutoTick =>
       IF ~isPaused /\ Len(nfts) > itemsPerView
         THEN currentSlide' =
                (IF currentSlide + 1 > Len(nfts) - itemsPerView
                   THEN 0 ELSE currentSlide + 1)
         ELSE currentSlide' = currentSlide]_vars

\* a tick wrapped from the last position: 5 assets, 4 per view, slide 1 to 0
AutoTickWrapped ==
  /\ lastEvent = [name |-> "tick", from |-> 1]
  /\ Len(nfts) = 5
  /\ itemsPerView = 4
  /\ ~isPaused
  /\ currentSlide = 0

\* C10: from an in-range currentSlide, prevSlide yields maxSlide from 0 and
\* currentSlide - 1 otherwise; nextSlide yields 0 from maxSlide and
\* currentSlide + 1 otherwise.
ManualNavigationRule ==
  [][/\ (goToPrevSlide /\ InRange) =>
          currentSlide' =
            (IF currentSlide = 0 THEN MaxSlideNow ELSE currentSlide - 1)
     /\ (goToNextSlide /\ InRange) =>
          currentSlide' =
            (IF currentSlide = MaxSlideNow THEN 0 ELSE currentSlide + 1)]_vars

\* next wrapped from the last position: 5 assets, 2 per view, slide 3 to 0
NextWrappedFromMaxSlide ==
  /\ lastEvent = [name |-> "next", from |-> 3]
  /\ Len(nfts) = 5
  /\ itemsPerView = 2
  /\ currentSlide = 0

\* C11: when the profile read answers without data and without an error
\* field, the cycle sets streak = 0, totalPoints = 0 and multiplier = 1.0,
\* does not touch error (which is null when this cycle wrote it last), and
\* goes on to the aggregate points read, whose success writes points.
AbsentProfileDefaultsRewards ==
  [][\A c \in Cycles :
       /\ ProfileAbsentIn(c) =>
            /\ streak' = 0
            /\ totalPoints' = 0
            /\ multiplier' = 10
            /\ error' = error
            /\ (writer["error"] = c => error' = NoError)
            /\ pc'[c] = "points"
       /\ (PointsSucceedsIn(c) /\ writer["streak"] = c /\ streak = 0) =>
            /\ writer'["points"] = c
            /\ points' \in PointSamples
            /\ streak' = 0
            /\ error' = error]_vars

\* cycle 2 found no profile after cycle 1 had stored a streak of 8, and is
\* about to read the aggregate points with error still null
AbsentProfileOverwroteStreak ==
  /\ pc[2] = "points"
  /\ snap[2].streak = 8
  /\ snap[2].multiplier = 15
  /\ writer["streak"] = 2
  /\ streak = 0
  /\ totalPoints = 0
  /\ multiplier = 10
  /\ error = NoError

\* C12: once the component is unmounted no auto-tick interval is running
\* and no IntersectionObserver is connected, whatever happened before the
\* teardown and whatever timer fires after it.
TeardownReleasesTimerAndObserver ==
  ~mounted => (liveIntervals = 0 /\ ~timerActive /\ ~observerLive)

\* the step a cycle is at once the step p has completed successfully
NextStepOf(p) ==
  CASE p = "idle" -> "own"
    [] p = "own" -> "ledger"
    [] p = "ledger" -> "profile"
    [] p = "profile" -> "points"
    [] OTHER -> "done"

\* C13: a cycle starts its fetches in the order ownership, ledger, profile,
\* points, each only when the one before it completed without failure; a
\* failure ends the cycle at once, so a failed ownership fetch is followed
\* by none of steps 2-4; and nfts is replaced only by the ledger step of a
\* cycle, with its own completed ownership result tagged against the ledger
\* rows that step received.
FetchesRunInOrder ==
  [][/\ \A c \in Cycles :
          /\ pc'[c] # pc[c] =>
               \/ /\ pc'[c] = NextStepOf(pc[c])
                  /\ pc[c] # "idle" => error' = error
               \/ /\ pc[c] \in { "own", "ledger", "profile", "points" }
                  /\ pc'[c] = "done"
                  /\ writer'["error"] = c
                  /\ error' # NoError
          /\ pc'[c] = "ledger" /\ pc[c] # "ledger" =>
               userNfts'[c] \in OwnedSamples
          /\ (OwnershipFailsIn(c) \/ OwnershipThrowsIn(c)) =>
               /\ pc'[c] = "done"
               /\ nfts' = nfts
               /\ writer'["nfts"] = writer["nfts"]
     /\ (nfts' # nfts \/ writer'["nfts"] # writer["nfts"]) =>
          \E c \in Cycles :
            /\ pc[c] = "ledger"
            /\ pc'[c] = "profile"
            /\ writer'["nfts"] = c
            /\ userNfts[c] \in OwnedSamples
            /\ \E usedNfts \in LedgerSamples :
                 nfts' = nftsWithUsageStatus(userNfts[c], usedNfts)]_vars

\* cycle 1 was aborted by a failed ownership fetch and wrote no list, while
\* cycle 2 went through ownership and ledger and stored its tagged list
AbortedNextToTaggedList ==
  /\ pc[1] = "done"
  /\ writer["error"] = 1
  /\ error = "Failed to fetch NFTs"
  /\ pc[2] = "profile"
  /\ writer["nfts"] = 2
  /\ Len(nfts) = 2
  /\ nfts[1].isUsedToday
  /\ \E usedNfts \in LedgerSamples :
       nfts = nftsWithUsageStatus(userNfts[2], usedNfts)

\* cycle c leaves loadData through its catch clause
CycleFails(c) ==
  \/ OwnershipThrowsIn(c)
  \/ OwnershipFailsIn(c)
  \/ LedgerFailsIn(c)
  \/ ProfileThrowsIn(c)
  \/ ProfileErrorsIn(c)
  \/ PointsThrowsIn(c)

\* cycle c completes one of its steps without failure
CycleAdvances(c) ==
  \/ OwnershipSucceedsIn(c)
  \/ LedgerSucceedsIn(c)
  \/ ProfilePresentIn(c)
  \/ ProfileAbsentIn(c)
  \/ PointsSucceedsIn(c)

\* the messages the catch clause can show
ShownMessages ==
  { "boom", "Failed to fetch NFTs", ProfileErrorText,
    "An error occurred while loading NFT data",
    "An unknown error occurred while loading NFT data. Check console for details." }

\* C14: the start of a cycle sets error to null; no successful step of a
\* cycle writes error; a failing cycle sets error to one non-empty message
\* (a generic one when the thrown value carries none); so a cycle that
\* succeeds with no other cycle having written error since its start ends
\* with error null, and a cycle that fails ends with error non-null.
ErrorFollowsCycleOutcome ==
  [][/\ LoadTrigger => (error' = NoError /\ writer'["error"] = started')
     /\ \A c \in Cycles : (pc[c] # "idle" /\ pc'[c] # pc[c]) =>
          /\ CycleAdvances(c) =>
               (error' = error /\ writer'["error"] = writer["error"])
          /\ CycleFails(c) =>
               /\ error' \in ShownMessages
               /\ error' \notin { NoError, "" }
               /\ writer'["error"] = c
               /\ pc'[c] = "done"
          /\ (PointsSucceedsIn(c) /\ writer["error"] = c) =>
               (error' = NoError /\ pc'[c] = "done")
          /\ CycleAdvances(c) \/ CycleFails(c)]_vars

\* cycle 1 stored points, then cycle 2 failed with an Error whose message is
\* empty: the generic message is shown
GenericMessageAfterSuccess ==
  /\ pc[1] = "done"
  /\ pc[2] = "done"
  /\ writer["points"] = 1
  /\ points = 3
  /\ writer["error"] = 2
  /\ writer["loading"] = 2
  /\ error = "An error occurred while loading NFT data"

\* prevSlide, nextSlide or a click on a progress indicator
ManualNavigation == goToPrevSlide \/ goToNextSlide \/ jumpToPage

\* C15: isPaused becomes true on pointer-enter and false on pointer-leave
\* and changes on no other event (navigation, tick, resize, a new asset
\* list, timers, unmount); a navigation leaves the interval running, and a
\* tick that follows a navigation while not paused advances from the slide
\* the navigation produced.
PauseFollowsPointerOnly ==
  [][/\ onMouseEnter => isPaused'
     /\ onMouseLeave => ~isPaused'
     /\ isPaused' # isPaused => (onMouseEnter \/ onMouseLeave)
     /\ (ManualNavigation \/ AutoTick \/ handleResize \/ ReplaceAssets) =>
          isPaused' = isPaused
     /\ ManualNavigation =>
          /\ timerActive' = timerActive
          /\ liveIntervals' = liveIntervals
          /\ Len(nfts) > 0 => timerActive'
     /\ (/\ AutoTick
         /\ lastEvent.name \in { "prev", "next", "jump" }
         /\ ~isPaused
         /\ Len(nfts) > itemsPerView) =>
          currentSlide' =
            (IF currentSlide + 1 > Len(nfts) - itemsPerView
               THEN 0 ELSE currentSlide + 1)]_vars

\* prevSlide wrapped from 0 to the last position (5 assets, 2 per view) with
\* the rotation running and not paused: the next tick starts from slide 3
NavigatedWhileRotating ==
  /\ lastEvent = [name |-> "prev", from |-> 0]
  /\ Len(nfts) = 5
  /\ itemsPerView = 2
  /\ currentSlide = 3
  /\ ~isPaused
  /\ timerActive
  /\ liveIntervals = 1

\* C16: after a resize at width w, itemsPerView is 4 if w >= 1024, 3 if
\* 768 <= w < 1024, 2 if 640 <= w < 768 and 1 otherwise; itemsPerView is
\* always one of 1, 2, 3, 4.
ItemsPerViewFollowsBreakpoints ==
  /\ itemsPerView \in { 1, 2, 3, 4 }
  /\ lastEvent.name = "resize" =>
       LET w == lastEvent.width IN
         /\ w >= 1024 => itemsPerView = 4
         /\ (768 =< w /\ w < 1024) => itemsPerView = 3
         /\ (640 =< w /\ w < 768) => itemsPerView = 2
         /\ w < 640 => itemsPerView = 1

\* a resize to exactly 768 pixels with five assets on show: three per view
ResizedToTabletBreakpoint ==
  /\ lastEvent.name = "resize"
  /\ lastEvent.width = 768
  /\ itemsPerView = 3
  /\ Len(nfts) = 5
  /\ mounted

\* C17: while the asset list is not replaced no index leaves loadedImages;
\* a replacement empties it; and a cycle that fails at the ownership fetch
\* or at the ledger read changes neither the asset list nor loadedImages.
VisibilityGrowsWithinGeneration ==
  [][/\ (nfts' = nfts /\ writer'["nfts"] = writer["nfts"]) =>
          loadedImages \subseteq loadedImages'
     /\ writer'["nfts"] # writer["nfts"] => loadedImages' = {}
     /\ \A c \in Cycles :
          (pc[c] \in { "own", "ledger" } /\ pc'[c] = "done") =>
            /\ OwnershipThrowsIn(c) \/ OwnershipFailsIn(c) \/ LedgerFailsIn(c)
            /\ nfts' = nfts
            /\ writer'["nfts"] = writer["nfts"]
            /\ loadedImages' = loadedImages]_vars

\* both images of cycle 1's list are marked visible and cycle 2 has failed
\* at the ownership fetch: the list and the marks are those of cycle 1
FailedCycleKeptVisibility ==
  /\ loadedImages = { 0, 1 }
  /\ Len(nfts) = 2
  /\ writer["nfts"] = 1
  /\ pc[2] = "done"
  /\ writer["error"] = 2
  /\ error = "Failed to fetch NFTs"

\* C18: whenever a load cycle has started and not yet finished, loading is
\* true, also when two cycles overlap and finish in either order.
LoadingWhileInFlight ==
  (\E c \in Cycles : pc[c] \in { "own", "ledger", "profile", "points" })
    => loading

\* C19: when the profile endpoint answers with an error field the cycle
\* ends there, before the aggregate points read: error becomes the
\* endpoint's non-empty message, the step writes none of points, streak,
\* multiplier and totalPoints (each still holds its value from the start of
\* the cycle unless another cycle wrote it), and nfts was already replaced:
\* it holds this cycle's tagged list unless another cycle replaced it since.
ProfileErrorAbortsAfterList ==
  [][\A c \in Cycles :
       ProfileErrorsIn(c) =>
         /\ error' = ProfileErrorText
         /\ error' \notin { NoError, "" }
         /\ pc'[c] = "done"
         /\ UNCHANGED << points, streak, multiplier, totalPoints >>
         /\ \A v \in RewardNames :
              /\ writer'[v] = writer[v]
              /\ writer[v] = snap[c].writer[v] => RewardValue(v) = snap[c][v]
         /\ nfts' = nfts
         /\ writer["nfts"] \in Cycles
         /\ writer["nfts"] = c =>
              \E usedNfts \in LedgerSamples :
                nfts = nftsWithUsageStatus(userNfts[c], usedNfts)
         /\ (\A d \in Cycles \ { c } : pc[d] \in { "idle", "own", "ledger" }
                                        /\ writer["nfts"] # d)
              => writer["nfts"] = c]_vars

\* cycle 1 stored the rewards; cycle 2 replaced the list with its tagged
\* one and was then refused by the profile endpoint: new list, old rewards
ProfileErrorKeptRewards ==
  /\ pc[1] = "done"
  /\ pc[2] = "done"
  /\ error = ProfileErrorText
  /\ writer["error"] = 2
  /\ writer["nfts"] = 2
  /\ Len(nfts) = 2
  /\ nfts[1].isUsedToday
  /\ writer["points"] = 1
  /\ writer["streak"] = 1
  /\ points = 3
  /\ streak = 8
  /\ multiplier = 15

\* C20: at most one auto-tick interval is running at any time, the one
\* autoRotateTimerRef refers to, whatever sequence of list replacements,
\* pointer events and resizes re-ran the effect; none is running while the
\* asset list is empty.
AtMostOneInterval ==
  /\ liveIntervals \in { 0, 1 }
  /\ timerActive <=> liveIntervals = 1
  /\ Len(nfts) = 0 => liveIntervals = 0

\* the pointer entered the carousel of a five-asset list: the effect ran
\* again for isPaused and exactly one interval is running
OneIntervalAfterPause ==
  /\ lastEvent.name = "enter"
  /\ isPaused
  /\ Len(nfts) = 5
  /\ mounted
  /\ timerActive
  /\ liveIntervals = 1

\* the carousel is on show and rotating, and the event that ran last is
\* neither a resize, nor a navigation, nor a replacement of the asset list
RotatingUndisturbed ==
  /\ mounted
  /\ ~isPaused
  /\ Len(nfts) > itemsPerView
  /\ lastEvent.name \notin { "resize", "prev", "next", "jump", "replace" }

\* C21: with the auto-tick firing fairly, if from some point on the
\* component stays on show with isPaused false and assetCount > itemsPerView
\* and no resize, navigation or list replacement happens any more, then
\* currentSlide is at every position of 0..assetCount - itemsPerView again
\* and again.
RotationVisitsEveryPosition ==
  \A k \in 0 .. (MaxAssets - 1) :
    <>[]RotatingUndisturbed =>
      []<>(k =< Len(nfts) - itemsPerView => currentSlide = k)

\* a tick looped back from the last position of a five-asset list shown
\* three per view, with nothing disturbing the rotation
RotationLoopedBack ==
  /\ RotatingUndisturbed
  /\ lastEvent = [name |-> "tick", from |-> 2]
  /\ Len(nfts) = 5
  /\ itemsPerView = 3
  /\ currentSlide = 0
  /\ timerActive

====
